---- MODULE Spec2Model ----
(***************************************************************************)
(* Model of src/agentlab/experiments/launch_exp.py: the batch-experiment   *)
(* launcher (main), its launch-mode validation (_validate_launch_mode),    *)
(* the incomplete-experiment scanner (_yield_incomplete_experiments) and   *)
(* the path splitter (split_path).                                         *)
(*                                                                         *)
(* Strings are sequences of one-character strings.  An experiment unit is  *)
(* named by the position of its record in the collaborator's traversal     *)
(* (relaunch) or in the factory's list (fresh launch).                     *)
(***************************************************************************)
EXTENDS Integers, Sequences, FiniteSets, TLC

\* ---------------------------------------------------------------- bounds
MaxRecords == 3      \* longest prior result set the scanner is run on
MaxUnits == 2        \* most experiment units in one launch
MaxPathLen == 3      \* longest exp_config string
MaxAnswerLen == 2    \* longest answer typed at the confirmation prompt
MaxJobs == 2         \* largest n_jobs
MaxClock == 3        \* last clock tick at which a launch may start
MaxLaunches == 2     \* most fresh launches made one after the other

None == "None"
NoAnswer == <<None>>   \* no answer has been compared yet

\* ---------------------------------------------------------------- strings
PathChars == {"a", ".", "/"}
AnswerChars == {"y", "Y", "n", " "}

StringsOver(chars, n) == UNION {[1..k -> chars] : k \in 0..n}

\* str.lower() on one character, then on a string
LowerChar(c) == IF c = "Y" THEN "y" ELSE IF c = "N" THEN "n" ELSE c
Lower(s) == [k \in 1..Len(s) |-> LowerChar(s[k])]

\* path.replace("/", ".")
ReplaceSlash(s) == [k \in 1..Len(s) |-> IF s[k] = "/" THEN "." ELSE s[k]]

\* index of the last "." of s, 0 when there is none
LastDot(s) ==
    IF \E k \in 1..Len(s) : s[k] = "."
    THEN CHOOSE k \in 1..Len(s) : s[k] = "." /\ \A j \in (k+1)..Len(s) : s[j] # "."
    ELSE 0

\* path.rsplit(".", 1): one or two pieces
RSplitDot(s) ==
    IF LastDot(s) = 0 THEN <<s>>
    ELSE <<SubSeq(s, 1, LastDot(s) - 1), SubSeq(s, LastDot(s) + 1, Len(s))>>

\* split_path: the two-name unpacking fails (ValueError) on a single piece
split_path(path) ==
    LET p == IF \E k \in 1..Len(path) : path[k] = "/" THEN ReplaceSlash(path) ELSE path
        pieces == RSplitDot(p)
    IN IF Len(pieces) = 2
       THEN [ok |-> TRUE, module_name |-> pieces[1], obj_name |-> pieces[2]]
       ELSE [ok |-> FALSE, module_name |-> <<>>, obj_name |-> <<>>]

\* Path(exp_root) / name, as the components below exp_root: an empty name
\* adds no component, so the result is exp_root itself
JoinRoot(name) == IF name = <<>> THEN <<>> ELSE <<name>>

\* ---------------------------------------------------------------- scanner
ErrMsgs == {None, "critical", "minor", "both", "other"}

\* error_categorization.is_critical_server_error / is_minor_server_error:
\* two independent boolean classifiers of (err_msg, stack_trace)
is_critical_server_error(e) == e \in {"critical", "both"}
is_minor_server_error(e) == e \in {"minor", "both"}

\* one prior result: whether summary_info can be read, and its err_msg
Records == {[has_summary |-> FALSE, err_msg |-> None]}
           \cup {[has_summary |-> TRUE, err_msg |-> e] : e \in ErrMsgs}

RelaunchModes == {"incomplete_only", "all_errors", "server_errors", "server_error"}
KnownModes == {"incomplete_only", "all_errors", "server_errors"}

\* variant: the incomplete_only early "continue" is missing
ScanRecord_NoModeSkip(rec, mode) ==
    IF ~rec.has_summary THEN "yield"
    ELSE IF rec.err_msg # None
         THEN IF mode = "all_errors" THEN "yield"
              ELSE IF mode = "server_errors"
                   THEN IF is_critical_server_error(rec.err_msg)
                           \/ is_minor_server_error(rec.err_msg)
                        THEN "yield" ELSE "skip"
                   ELSE "raise"
         ELSE "skip"

\* variant: all_errors does not test err_msg against None
ScanRecord_NoErrCheck(rec, mode) ==
    IF ~rec.has_summary THEN "yield"
    ELSE IF mode = "incomplete_only" THEN "skip"
    ELSE IF mode = "all_errors" THEN "yield"
    ELSE IF rec.err_msg # None
         THEN IF mode = "server_errors"
              THEN IF is_critical_server_error(rec.err_msg)
                      \/ is_minor_server_error(rec.err_msg)
                   THEN "yield" ELSE "skip"
              ELSE "raise"
         ELSE "skip"

\* variant: server_errors requires both classifiers instead of either
ScanRecord_BothClassifiers(rec, mode) ==
    IF ~rec.has_summary THEN "yield"
    ELSE IF mode = "incomplete_only" THEN "skip"
    ELSE IF rec.err_msg # None
         THEN IF mode = "all_errors" THEN "yield"
              ELSE IF mode = "server_errors"
                   THEN IF is_critical_server_error(rec.err_msg)
                           /\ is_minor_server_error(rec.err_msg)
                        THEN "yield" ELSE "skip"
                   ELSE "raise"
         ELSE "skip"

\* variant: a missing summary only counts in incomplete_only mode
ScanRecord_MissingOnlyIncomplete(rec, mode) ==
    IF mode = "incomplete_only"
    THEN IF ~rec.has_summary THEN "yield" ELSE "skip"
    ELSE IF rec.has_summary /\ rec.err_msg # None
         THEN IF mode = "all_errors" THEN "yield"
              ELSE IF mode = "server_errors"
                   THEN IF is_critical_server_error(rec.err_msg)
                           \/ is_minor_server_error(rec.err_msg)
                        THEN "yield" ELSE "skip"
                   ELSE "raise"
         ELSE "skip"

\* body of the scanner's loop for one record: "yield", "skip" or "raise"
ScanRecord(rec, mode) ==
    IF ~rec.has_summary THEN "yield"
    ELSE IF mode = "incomplete_only" THEN "skip"
    ELSE IF rec.err_msg # None
         THEN IF mode = "all_errors" THEN "yield"
              ELSE IF mode = "server_errors"
                   THEN IF is_critical_server_error(rec.err_msg)
                           \/ is_minor_server_error(rec.err_msg)
                        THEN "yield" ELSE "skip"
                   ELSE "raise"
         ELSE "skip"

\* list(_yield_incomplete_experiments(...)): the generator run to its end
RECURSIVE ScanFrom(_, _, _, _)
ScanFrom(recs, mode, k, out) ==
    IF k > Len(recs) THEN [raised |-> FALSE, units |-> out]
    ELSE LET r == ScanRecord(recs[k], mode)
         IN IF r = "raise" THEN [raised |-> TRUE, units |-> out]
            ELSE ScanFrom(recs, mode, k + 1, IF r = "yield" THEN Append(out, k) ELSE out)

ScanAll(recs, mode) == ScanFrom(recs, mode, 1, <<>>)

\* ---------------------------------------------------------------- state
VARIABLES
    pc,             \* where main is: "start", "shuffle", "check", "prepare",
                    \* "run", "teardown", "done"; "scan" while only the scanner runs
    exp_config,     \* main's argument: group path (fresh) or group name (relaunch)
    agent_config,   \* main's argument: path of the agent object
    relaunch_mode,  \* main's argument, None for a fresh launch
    auto_accept,    \* main's argument
    shuffle_jobs,   \* main's argument
    n_jobs,         \* main's argument
    groups,         \* names of the directories that exist under exp_root
    results,        \* prior records yield_all_exp_results finds in the scanned directory
    n_factory,      \* number of units the experiment-group callable returns
    webarena,       \* units whose env_args.task_name contains "webarena"
    model_name,     \* per unit: agent_args.chat_model_args.model_name
    clock,          \* the wall clock, in ticks finer than a second
    answer,         \* the answer validation compared with "y"
    exp_args_list,  \* the unit list main works on
    exp_dir,        \* the resolved output directory, as components below exp_root
    idx,            \* loop position of the preparation / teardown loop
    stage,          \* "agent" or "unit": which prepare call is next for unit idx
    run_state,      \* per unit: "pending", "running", "returned", "raised", "aborted"
    registry,       \* units whose agent is bound to the shared registry
    trace,          \* history: the collaborator calls made so far, in order
    exc,            \* the exception leaving main, None while there is none
    validated,      \* history: what validation gave: None, "raise", "none", "ok"
    entered_run,    \* history: the try block around Parallel(...) was entered
    model_url,      \* per unit: agent_args.chat_model_args.model_url
    launches,       \* history: start tick and directory of each accepted fresh launch
    scan_pos,       \* scanner: number of records taken from the iterator
    scan_out,       \* scanner: units yielded so far
    scan_state      \* scanner: "idle", "running", "exhausted", "raised"

vars == <<pc, exp_config, agent_config, relaunch_mode, auto_accept, shuffle_jobs,
          n_jobs, groups, results, n_factory, webarena, answer, exp_args_list,
          exp_dir, idx, stage, run_state, registry, trace, exc, validated,
          entered_run, scan_pos, scan_out, scan_state, model_name, clock,
          model_url, launches>>

inputs == <<exp_config, agent_config, relaunch_mode, auto_accept, shuffle_jobs,
            n_jobs, groups, results, n_factory, webarena, model_name, clock>>
scanner == <<scan_pos, scan_out, scan_state>>
history == <<validated, entered_run, model_url, launches>>

\* ---------------------------------------------------------------- inputs
Paths == StringsOver(PathChars, MaxPathLen)
Answers == StringsOver(AnswerChars, MaxAnswerLen)
ResultSets(n) == UNION {[1..k -> Records] : k \in 0..n}

\* directory names that may exist under exp_root
GroupNames == {<<"a">>, <<".", "a">>}
\* the one importable object: attribute "a" of module "a"
Importable == {<<<<"a">>, <<"a">>>>}
GoodPath == <<"a", "/", "a">>

Event(op, u) == [op |-> op, unit |-> u]

\* ---------------------------------------------------------------- validation
\* import_object: "ok", or the exception it ends with
import_object(path) ==
    LET sp == split_path(path)
    IN IF ~sp.ok THEN "ValueError"
       ELSE IF <<sp.module_name, sp.obj_name>> \in Importable THEN "ok"
       ELSE "ImportError"

\* exp_dir.exists() for a directory given by its components below exp_root
DirExists(dir) == dir = <<>> \/ dir[1] \in groups

Raises(e) == [kind |-> "raise", exc |-> e, units |-> <<>>, dir |-> <<>>,
              events |-> <<>>, answer |-> NoAnswer, urls |-> model_url]
Nothing(ev, ans) == [kind |-> "none", exc |-> None, units |-> <<>>, dir |-> <<>>,
                     events |-> ev, answer |-> ans, urls |-> model_url]

\* CHAT_MODEL_ARGS_DICT: the static model-name -> endpoint lookup
ModelNames == {"m1", "m2"}
ModelUrlTable == [m \in ModelNames |-> IF m = "m1" THEN "url1" ELSE "url2"]
\* names and endpoints a recorded unit may carry; "m0" is not in the table
RecordedNames == ModelNames \cup {"m0"}
StaleUrl == "old"

\* the candidates the overwrite loop gets through: all of them, or those
\* before the first one whose model name the table lacks (KeyError)
Refreshable(units) ==
    IF \E k \in 1..Len(units) : model_name[units[k]] \notin ModelNames
    THEN SubSeq(units, 1, (CHOOSE k \in 1..Len(units) :
                             /\ model_name[units[k]] \notin ModelNames
                             /\ \A j \in 1..(k-1) : model_name[units[j]] \in ModelNames) - 1)
    ELSE units

\* the "overwriting the model_url" loop: one assignment per candidate
OverwriteUrls(units) == [k \in 1..Len(units) |-> Event("set_model_url", units[k])]

\* variant: the loop starts at the second candidate
RefreshUrls_SkipFirst(units) ==
    [u \in DOMAIN model_url |->
        IF \E k \in 2..Len(units) : units[k] = u
        THEN ModelUrlTable[model_name[u]] ELSE model_url[u]]

\* the endpoints after the loop has assigned the table's endpoint to each of units
RefreshUrls(units) ==
    [u \in DOMAIN model_url |->
        IF \E k \in 1..Len(units) : units[k] = u
        THEN ModelUrlTable[model_name[u]] ELSE model_url[u]]

\* the outcome r of validation, with the endpoints the loop left behind
WithUrls(r, urls) == [r EXCEPT !.urls = urls]

\* variant: only the answer "n" aborts
Confirm_AbortOnN(units, dir, ev, typed) ==
    LET ans == IF auto_accept THEN <<"y">> ELSE typed
        ev2 == IF auto_accept THEN ev ELSE Append(ev, Event("input", 0))
    IN IF Lower(ans) = <<"n">> THEN Nothing(ev2, ans)
       ELSE [kind |-> "ok", exc |-> None, units |-> units, dir |-> dir,
             events |-> ev2, answer |-> ans, urls |-> model_url]

\* variant: the answer is compared with "y" as typed
Confirm_NoLower(units, dir, ev, typed) ==
    LET ans == IF auto_accept THEN <<"y">> ELSE typed
        ev2 == IF auto_accept THEN ev ELSE Append(ev, Event("input", 0))
    IN IF ans # <<"y">> THEN Nothing(ev2, ans)
       ELSE [kind |-> "ok", exc |-> None, units |-> units, dir |-> dir,
             events |-> ev2, answer |-> ans, urls |-> model_url]

\* the confirmation step shared by both branches; typed is what input() returns
Confirm(units, dir, ev, typed) ==
    LET ans == IF auto_accept THEN <<"y">> ELSE typed
        ev2 == IF auto_accept THEN ev ELSE Append(ev, Event("input", 0))
    IN IF Lower(ans) # <<"y">> THEN Nothing(ev2, ans)
       ELSE [kind |-> "ok", exc |-> None, units |-> units, dir |-> dir,
             events |-> ev2, answer |-> ans, urls |-> model_url]

\* ticks of the clock in one second, the finest field of the timestamp format
TicksPerSecond == 2

\* datetime.now().strftime('%Y-%m-%d_%H-%M-%S'): the tick cut down to whole
\* seconds, written as that many "s" characters
FormatStamp(t) == [k \in 1..(t \div TicksPerSecond) |-> "s"]

\* variant: the directory name carries no timestamp
Timestamped_NoStamp(t, name) == <<"_">> \o name

\* the directory name of a fresh launch: "<timestamp>_<name>"
Timestamped(t, name) == FormatStamp(t) \o <<"_">> \o name

\* _validate_launch_mode, typed being the operator's answer if one is asked for
validate_launch_mode(typed) ==
    IF relaunch_mode # None
    THEN LET sp == split_path(exp_config)
             dir == JoinRoot(sp.obj_name)
             scan == ScanAll(results, relaunch_mode)
             known == Refreshable(scan.units)
         IN IF ~sp.ok THEN Raises("ValueError:unpack")
            ELSE IF ~DirExists(dir) THEN Raises("ValueError:no_such_group")
            ELSE IF scan.raised THEN Raises("ValueError:unknown_mode")
            ELSE IF Len(scan.units) = 0 THEN Nothing(<<>>, NoAnswer)
            ELSE IF known # scan.units
                 THEN WithUrls([Raises("KeyError") EXCEPT !.events = OverwriteUrls(known)],
                               RefreshUrls(known))
                 ELSE WithUrls(Confirm(scan.units, dir, OverwriteUrls(scan.units), typed),
                               RefreshUrls(scan.units))
    ELSE LET e == import_object(exp_config)
             a == import_object(agent_config)
             units == [k \in 1..n_factory |-> k]
         IN IF e # "ok" THEN Raises(e)
            ELSE IF a # "ok" THEN Raises(a)
            ELSE Confirm(units, <<Timestamped(clock, split_path(exp_config).obj_name)>>,
                         <<>>, typed)

\* ---------------------------------------------------------------- main
AllPending(units) == [u \in {units[k] : k \in 1..Len(units)} |-> "pending"]

\* main, lines 53-57: validation, then the unpacking of its result into
\* (exp_args_list, exp_dir), which fails with a TypeError on None
Validate ==
    /\ pc = "start"
    /\ \E typed \in Answers :
         LET v == validate_launch_mode(typed)
         IN /\ trace' = trace \o v.events
            /\ answer' = v.answer
            /\ validated' = v.kind
            /\ model_url' = v.urls
            /\ launches' = IF v.kind = "ok" /\ relaunch_mode = None
                           THEN Append(launches, [at |-> clock, dir |-> v.dir])
                           ELSE launches
            /\ IF v.kind = "ok"
               THEN /\ exp_args_list' = v.units
                    /\ exp_dir' = v.dir
                    /\ run_state' = AllPending(v.units)
                    /\ pc' = "shuffle"
                    /\ exc' = None
               ELSE /\ pc' = "done"
                    /\ exc' = IF v.kind = "raise" THEN v.exc ELSE "TypeError:unpack_None"
                    /\ UNCHANGED <<exp_args_list, exp_dir, run_state>>
    /\ UNCHANGED <<inputs, scanner, idx, stage, registry, entered_run>>

UnitsOf(list) == {list[k] : k \in 1..Len(list)}

\* variant: positions are drawn independently, so units can repeat or vanish
ShuffledOrders_WithReplacement(list) ==
    {[k \in 1..Len(list) |-> list[f[k]]] : f \in [1..Len(list) -> 1..Len(list)]}

\* the orders random.shuffle can leave the list in
ShuffledOrders(list) ==
    {[k \in 1..Len(list) |-> list[f[k]]] :
        f \in {g \in [1..Len(list) -> 1..Len(list)] :
                 \A i, j \in 1..Len(list) : i # j => g[i] # g[j]}}

\* lines 58-60
Shuffle ==
    /\ pc = "shuffle"
    /\ IF shuffle_jobs
       THEN exp_args_list' \in ShuffledOrders(exp_args_list)
       ELSE exp_args_list' = exp_args_list
    /\ pc' = "check"
    /\ UNCHANGED <<inputs, scanner, history, answer, exp_dir, idx, stage, run_state,
                   registry, trace, exc>>

\* variant: the check runs only when every unit carries the marker
AnyWebarena_All ==
    exp_args_list # <<>> /\ \A u \in UnitsOf(exp_args_list) : u \in webarena

AnyWebarena == \E u \in UnitsOf(exp_args_list) : u \in webarena

\* lines 62-68: the pre-flight check, which may fail, then registry = {}
Check ==
    /\ pc = "check"
    /\ IF AnyWebarena
       THEN /\ trace' = Append(trace, Event("check_webarena_servers", 0))
            /\ \E passed \in BOOLEAN :
                 IF passed
                 THEN pc' = "prepare" /\ exc' = None
                 ELSE pc' = "done" /\ exc' = "CheckError"
       ELSE /\ trace' = trace
            /\ pc' = "prepare"
            /\ exc' = None
    /\ registry' = {}
    /\ idx' = 1
    /\ stage' = "agent"
    /\ UNCHANGED <<inputs, scanner, history, answer, exp_args_list, exp_dir, run_state>>

\* variant: a failing agent prepare is noted and the loop goes on
PrepareAgent_DeferError ==
    /\ pc = "prepare"
    /\ idx <= Len(exp_args_list)
    /\ stage = "agent"
    /\ trace' = Append(trace, Event("agent_prepare", exp_args_list[idx]))
    /\ \E ok \in BOOLEAN :
         IF ok
         THEN /\ registry' = registry \cup {exp_args_list[idx]}
              /\ stage' = "unit"
              /\ UNCHANGED <<pc, exc>>
         ELSE /\ exc' = "PrepareError"
              /\ stage' = "unit"
              /\ UNCHANGED <<registry, pc>>
    /\ UNCHANGED <<inputs, scanner, history, answer, exp_args_list, exp_dir, idx, run_state>>

\* line 72: exp_args.agent_args.prepare(registry), which may raise
PrepareAgent ==
    /\ pc = "prepare"
    /\ idx <= Len(exp_args_list)
    /\ stage = "agent"
    /\ trace' = Append(trace, Event("agent_prepare", exp_args_list[idx]))
    /\ \E ok \in BOOLEAN :
         IF ok
         THEN /\ registry' = registry \cup {exp_args_list[idx]}
              /\ stage' = "unit"
              /\ UNCHANGED <<pc, exc>>
         ELSE /\ pc' = "done"
              /\ exc' = "PrepareError"
              /\ UNCHANGED <<registry, stage>>
    /\ UNCHANGED <<inputs, scanner, history, answer, exp_args_list, exp_dir, idx, run_state>>

\* line 73: exp_args.prepare(exp_root=exp_dir), which may raise
PrepareUnit ==
    /\ pc = "prepare"
    /\ idx <= Len(exp_args_list)
    /\ stage = "unit"
    /\ trace' = Append(trace, Event("prepare", exp_args_list[idx]))
    /\ \E ok \in BOOLEAN :
         IF ok
         THEN /\ idx' = idx + 1
              /\ stage' = "agent"
              /\ UNCHANGED <<pc, exc>>
         ELSE /\ pc' = "done"
              /\ exc' = "PrepareError"
              /\ UNCHANGED <<idx, stage>>
    /\ UNCHANGED <<inputs, scanner, history, answer, exp_args_list, exp_dir, run_state, registry>>

\* variant: the run phase starts before the preparation loop has finished
EnterRun_Early ==
    /\ pc = "prepare"
    /\ stage = "agent"
    /\ pc' = "run"
    /\ entered_run' = TRUE
    /\ UNCHANGED <<inputs, scanner, answer, exp_args_list, exp_dir, idx, stage,
                   run_state, registry, trace, exc, validated, model_url, launches>>

\* lines 75-77: the preparation loop is over, the try block is entered
EnterRun ==
    /\ pc = "prepare"
    /\ idx > Len(exp_args_list)
    /\ pc' = "run"
    /\ entered_run' = TRUE
    /\ UNCHANGED <<inputs, scanner, answer, exp_args_list, exp_dir, idx, stage,
                   run_state, registry, trace, exc, validated, model_url, launches>>

Running == {u \in DOMAIN run_state : run_state[u] = "running"}
Raised == {u \in DOMAIN run_state : run_state[u] = "raised"}

\* the first unit of the list not yet handed to a worker, 0 when there is none
NextPending ==
    IF \E k \in 1..Len(exp_args_list) : run_state[exp_args_list[k]] = "pending"
    THEN exp_args_list[CHOOSE k \in 1..Len(exp_args_list) :
                          /\ run_state[exp_args_list[k]] = "pending"
                          /\ \A j \in 1..(k-1) : run_state[exp_args_list[j]] # "pending"]
    ELSE 0

\* lines 77-79: Parallel hands the next delayed run to a free worker
Submit ==
    /\ pc = "run"
    /\ NextPending # 0
    /\ Cardinality(Running) < n_jobs
    /\ Raised = {} \/ n_jobs > 1
    /\ run_state' = [run_state EXCEPT ![NextPending] = "running"]
    /\ trace' = Append(trace, Event("run", NextPending))
    /\ UNCHANGED <<inputs, scanner, history, pc, answer, exp_args_list, exp_dir, idx, stage,
                   registry, exc>>

\* a unit's run() returns
RunReturn ==
    /\ pc = "run"
    /\ \E u \in Running : run_state' = [run_state EXCEPT ![u] = "returned"]
    /\ UNCHANGED <<inputs, scanner, history, pc, answer, exp_args_list, exp_dir, idx, stage,
                   registry, trace, exc>>

\* a unit's run() raises
RunRaise ==
    /\ pc = "run"
    /\ \E u \in Running : run_state' = [run_state EXCEPT ![u] = "raised"]
    /\ UNCHANGED <<inputs, scanner, history, pc, answer, exp_args_list, exp_dir, idx, stage,
                   registry, trace, exc>>

AbortRunning == [u \in DOMAIN run_state |->
                    IF run_state[u] = "running" THEN "aborted" ELSE run_state[u]]

\* variant: Parallel(...) returns as soon as one run has returned
ParallelReturn_AnyReturned ==
    /\ pc = "run"
    /\ \E u \in DOMAIN run_state : run_state[u] = "returned"
    /\ pc' = "teardown"
    /\ idx' = 1
    /\ UNCHANGED <<inputs, scanner, history, answer, exp_args_list, exp_dir, stage, run_state,
                   registry, trace, exc>>

\* Parallel(...) returns: every run has returned; the finally block starts
ParallelReturn ==
    /\ pc = "run"
    /\ \A u \in DOMAIN run_state : run_state[u] = "returned"
    /\ pc' = "teardown"
    /\ idx' = 1
    /\ UNCHANGED <<inputs, scanner, history, answer, exp_args_list, exp_dir, stage, run_state,
                   registry, trace, exc>>

\* variant: no finally block, a run's exception leaves main at once
ParallelRaise_NoFinally ==
    /\ pc = "run"
    /\ Raised # {}
    /\ run_state' = AbortRunning
    /\ exc' = "RunError"
    /\ pc' = "done"
    /\ idx' = 1
    /\ UNCHANGED <<inputs, scanner, history, answer, exp_args_list, exp_dir, stage, registry,
                   trace>>

\* Parallel(...) raises a run's exception; runs still in flight are aborted
ParallelRaise ==
    /\ pc = "run"
    /\ Raised # {}
    /\ run_state' = AbortRunning
    /\ exc' = "RunError"
    /\ pc' = "teardown"
    /\ idx' = 1
    /\ UNCHANGED <<inputs, scanner, history, answer, exp_args_list, exp_dir, stage, registry,
                   trace>>

\* ctrl+c while Parallel(...) is blocking
Interrupt ==
    /\ pc = "run"
    /\ run_state' = AbortRunning
    /\ exc' = "KeyboardInterrupt"
    /\ pc' = "teardown"
    /\ idx' = 1
    /\ UNCHANGED <<inputs, scanner, history, answer, exp_args_list, exp_dir, stage, registry,
                   trace>>

\* variant: a close failure does not replace an exception already under way
Close_KeepRunError ==
    /\ pc = "teardown"
    /\ idx <= Len(exp_args_list)
    /\ trace' = Append(trace, Event("close", exp_args_list[idx]))
    /\ \E ok \in BOOLEAN :
         IF ok
         THEN /\ registry' = registry \ {exp_args_list[idx]}
              /\ idx' = idx + 1
              /\ UNCHANGED <<pc, exc>>
         ELSE /\ pc' = "done"
              /\ exc' = IF exc # None THEN exc ELSE "CloseError"
              /\ UNCHANGED <<registry, idx>>
    /\ UNCHANGED <<inputs, scanner, history, answer, exp_args_list, exp_dir, stage, run_state>>

\* line 86: exp_args.agent_args.close(registry), which may raise
Close ==
    /\ pc = "teardown"
    /\ idx <= Len(exp_args_list)
    /\ trace' = Append(trace, Event("close", exp_args_list[idx]))
    /\ \E ok \in BOOLEAN :
         IF ok
         THEN /\ registry' = registry \ {exp_args_list[idx]}
              /\ idx' = idx + 1
              /\ UNCHANGED <<pc, exc>>
         ELSE /\ pc' = "done"
              /\ exc' = "CloseError"
              /\ UNCHANGED <<registry, idx>>
    /\ UNCHANGED <<inputs, scanner, history, answer, exp_args_list, exp_dir, stage, run_state>>

\* lines 87-89: the finally block ends; a pending exception goes on, else return
Finish ==
    /\ pc = "teardown"
    /\ idx > Len(exp_args_list)
    /\ pc' = "done"
    /\ UNCHANGED <<inputs, scanner, history, answer, exp_args_list, exp_dir, idx, stage,
                   run_state, registry, trace, exc>>

\* ---------------------------------------------------------------- launch spec
NoScan == scan_pos = 0 /\ scan_out = <<>> /\ scan_state = "idle"

InitState ==
    /\ pc = "start"
    /\ answer = NoAnswer
    /\ exp_args_list = <<>>
    /\ exp_dir = <<>>
    /\ idx = 0
    /\ stage = "agent"
    /\ run_state = <<>>
    /\ registry = {}
    /\ trace = <<>>
    /\ exc = None
    /\ validated = None
    /\ entered_run = FALSE
    /\ launches = <<>>
    /\ NoScan

\* n units that all use model "m1" and carry an endpoint recorded earlier
DefaultAgents(n) ==
    /\ model_name = [u \in 1..n |-> "m1"]
    /\ model_url = [u \in 1..n |-> StaleUrl]

\* fresh launches: every launch option over every size of the factory's list
InitLaunch ==
    /\ exp_config = GoodPath
    /\ agent_config = GoodPath
    /\ groups = {<<"a">>}
    /\ relaunch_mode = None
    /\ auto_accept \in BOOLEAN
    /\ shuffle_jobs \in BOOLEAN
    /\ n_jobs \in 1..MaxJobs
    /\ results = <<>>
    /\ n_factory \in 0..MaxUnits
    /\ webarena \in SUBSET (1..n_factory)
    /\ DefaultAgents(n_factory)
    /\ clock = 0

\* relaunches: every mode over every prior result set, run one job at a time
InitRelaunch ==
    /\ exp_config = GoodPath
    /\ agent_config = GoodPath
    /\ groups = {<<"a">>}
    /\ relaunch_mode \in RelaunchModes
    /\ auto_accept \in BOOLEAN
    /\ shuffle_jobs = FALSE
    /\ n_jobs = 1
    /\ results \in ResultSets(MaxUnits)
    /\ n_factory = 0
    /\ webarena = {}
    /\ DefaultAgents(Len(results))
    /\ clock = 0

\* every path string and set of existing directories, over one-unit launches
InitPaths ==
    /\ exp_config \in Paths
    /\ agent_config \in {GoodPath, <<"a">>, <<"a", ".", ".">>}
    /\ groups \in SUBSET GroupNames
    /\ relaunch_mode \in {None, "incomplete_only"}
    /\ auto_accept = TRUE
    /\ shuffle_jobs = FALSE
    /\ n_jobs = 1
    /\ IF relaunch_mode = None
       THEN results = <<>> /\ n_factory = 1
       ELSE results = <<[has_summary |-> FALSE, err_msg |-> None]>> /\ n_factory = 0
    /\ webarena = {}
    /\ DefaultAgents(1)
    /\ clock = 0

Init == InitState /\ (InitLaunch \/ InitRelaunch \/ InitPaths)

Next ==
    \/ Validate
    \/ Shuffle
    \/ Check
    \/ PrepareAgent
    \/ PrepareUnit
    \/ EnterRun
    \/ Submit
    \/ RunReturn
    \/ RunRaise
    \/ ParallelReturn
    \/ ParallelRaise
    \/ Interrupt
    \/ Close
    \/ Finish

Spec == Init /\ [][Next]_vars

\* ---------------------------------------------------------------- scanner spec
\* _yield_incomplete_experiments as the generator it is: one record per step

launcher == <<pc, answer, exp_args_list, exp_dir, idx, stage, run_state, registry,
              trace, exc, validated, entered_run, model_url, launches>>

NextRecord == results[scan_pos + 1]

\* the record lacks a summary, or its error qualifies under the mode
ScanYield ==
    /\ pc = "scan"
    /\ scan_state = "running"
    /\ scan_pos < Len(results)
    /\ ScanRecord(NextRecord, relaunch_mode) = "yield"
    /\ scan_pos' = scan_pos + 1
    /\ scan_out' = Append(scan_out, scan_pos + 1)
    /\ UNCHANGED <<inputs, launcher, scan_state>>

\* the record is passed over
ScanSkip ==
    /\ pc = "scan"
    /\ scan_state = "running"
    /\ scan_pos < Len(results)
    /\ ScanRecord(NextRecord, relaunch_mode) = "skip"
    /\ scan_pos' = scan_pos + 1
    /\ UNCHANGED <<inputs, launcher, scan_out, scan_state>>

\* line 180: raise ValueError(f"Unknown relaunch_mode: ...")
ScanRaise ==
    /\ pc = "scan"
    /\ scan_state = "running"
    /\ scan_pos < Len(results)
    /\ ScanRecord(NextRecord, relaunch_mode) = "raise"
    /\ scan_pos' = scan_pos + 1
    /\ scan_state' = "raised"
    /\ UNCHANGED <<inputs, launcher, scan_out>>

\* the external iterator is exhausted: the generator ends
ScanEnd ==
    /\ pc = "scan"
    /\ scan_state = "running"
    /\ scan_pos = Len(results)
    /\ scan_state' = "exhausted"
    /\ UNCHANGED <<inputs, launcher, scan_pos, scan_out>>

InitScan ==
    /\ pc = "scan"
    /\ answer = NoAnswer
    /\ exp_args_list = <<>>
    /\ exp_dir = <<>>
    /\ idx = 0
    /\ stage = "agent"
    /\ run_state = <<>>
    /\ registry = {}
    /\ trace = <<>>
    /\ exc = None
    /\ validated = None
    /\ entered_run = FALSE
    /\ exp_config = GoodPath
    /\ agent_config = GoodPath
    /\ groups = {<<"a">>}
    /\ auto_accept = TRUE
    /\ shuffle_jobs = FALSE
    /\ n_jobs = 1
    /\ n_factory = 0
    /\ webarena = {}
    /\ launches = <<>>
    /\ clock = 0
    /\ relaunch_mode \in RelaunchModes
    /\ results \in ResultSets(MaxRecords)
    /\ DefaultAgents(Len(results))
    /\ scan_pos = 0
    /\ scan_out = <<>>
    /\ scan_state = "running"

NextScan == ScanYield \/ ScanSkip \/ ScanRaise \/ ScanEnd

SpecScan == InitScan /\ [][NextScan]_vars

\* ---------------------------------------------------------------- validation spec
\* _validate_launch_mode alone, over launches made one after the other

\* the two spellings of the one importable experiment group
GroupPaths == {GoodPath, <<"a", ".", "a">>}

\* records as the relaunch branch tells them apart under all_errors
PlainRecords == {r \in Records : r.err_msg \in {None, "other"}}
PlainResultSets(n) == UNION {[1..k -> PlainRecords] : k \in 0..n}

\* time passes before a launch reads the clock
Tick ==
    /\ pc = "start"
    /\ clock < MaxClock
    /\ clock' = clock + 1
    /\ UNCHANGED <<exp_config, agent_config, relaunch_mode, auto_accept, shuffle_jobs,
                   n_jobs, groups, results, n_factory, webarena, model_name>>
    /\ UNCHANGED <<launcher, scanner>>

\* main is started again on the same experiment group and output root
NextInvocation ==
    /\ pc \in {"shuffle", "done"}
    /\ relaunch_mode = None
    /\ Len(launches) < MaxLaunches
    /\ pc' = "start"
    /\ answer' = NoAnswer
    /\ exp_args_list' = <<>>
    /\ exp_dir' = <<>>
    /\ run_state' = <<>>
    /\ trace' = <<>>
    /\ exc' = None
    /\ validated' = None
    /\ exp_config' \in GroupPaths
    /\ UNCHANGED <<agent_config, relaunch_mode, auto_accept, shuffle_jobs, n_jobs, groups,
                   results, n_factory, webarena, model_name, clock>>
    /\ UNCHANGED <<scanner, idx, stage, registry, entered_run, model_url, launches>>

InitValidateFresh ==
    /\ exp_config \in GroupPaths
    /\ agent_config = GoodPath
    /\ groups = {<<"a">>}
    /\ relaunch_mode = None
    /\ auto_accept \in BOOLEAN
    /\ shuffle_jobs = FALSE
    /\ n_jobs = 1
    /\ results = <<>>
    /\ n_factory = 1
    /\ webarena = {}
    /\ DefaultAgents(n_factory)
    /\ clock = 0

InitValidateRelaunch ==
    /\ exp_config = GoodPath
    /\ agent_config = GoodPath
    /\ groups = {<<"a">>}
    /\ relaunch_mode \in {"incomplete_only", "all_errors"}
    /\ auto_accept \in BOOLEAN
    /\ shuffle_jobs = FALSE
    /\ n_jobs = 1
    /\ results \in PlainResultSets(MaxUnits)
    /\ n_factory = 0
    /\ webarena = {}
    /\ model_name \in [1..Len(results) -> RecordedNames]
    /\ model_url = [u \in 1..Len(results) |-> StaleUrl]
    /\ clock = MaxClock

InitValidate == InitState /\ (InitValidateFresh \/ InitValidateRelaunch)

NextValidate == Validate \/ Tick \/ NextInvocation

SpecValidate == InitValidate /\ [][NextValidate]_vars

\* ---------------------------------------------------------------- properties
\* the units of the calls of the given kinds, in the order they were made
Calls(ops) == LET sel == SelectSeq(trace, LAMBDA e : e.op \in ops)
              IN [k \in 1..Len(sel) |-> sel[k].unit]
UnitCalls == {"agent_prepare", "prepare", "run", "close"}
IsPrefix(s, t) == Len(s) <= Len(t) /\ SubSeq(t, 1, Len(s)) = s
FirstIndex(op) == CHOOSE k \in 1..Len(trace) :
                     trace[k].op = op /\ \A j \in 1..(k-1) : trace[j].op # op
Declined == ~auto_accept /\ answer # NoAnswer /\ Lower(answer) # <<"y">>

\* the prepare calls a full preparation of the list makes, in order
RECURSIVE FullPreparation(_)
FullPreparation(list) ==
    IF list = <<>> THEN <<>>
    ELSE <<Event("agent_prepare", Head(list)), Event("prepare", Head(list))>>
         \o FullPreparation(Tail(list))

\* records among the first n of the result set, by what their summary says
Missing(n) == {k \in 1..n : ~results[k].has_summary}
Errored(n) == {k \in 1..n : results[k].has_summary /\ results[k].err_msg # None}
ServerErrored(n) == {k \in Errored(n) :
                        \/ is_critical_server_error(results[k].err_msg)
                        \/ is_minor_server_error(results[k].err_msg)}
YieldsExactly(set) == UnitsOf(scan_out) = set /\ Len(scan_out) = Cardinality(set)

\* C1: when validation yields nothing (declined prompt, or no candidate in
\* relaunch mode), main returns cleanly: no exception leaves main.
C1_NothingReturnsCleanly ==
    (pc = "done" /\ validated = "none") => exc = None

\* C2: with auto_accept false and an answer that does not lower-case to "y",
\* no agent prepare, unit prepare, run or close is ever invoked.
C2_DeclineInvokesNothing ==
    Declined => Calls(UnitCalls) = <<>> /\ pc = "done"

C2_Witness ==
    /\ Declined
    /\ pc = "done"
    /\ answer = <<"y", "y">>
    /\ n_factory >= 1

\* C3 as stated: once the run phase was entered, close is invoked exactly once
\* on every unit's agent, in list order, before main exits.
C3_EveryUnitClosed ==
    (pc = "done" /\ entered_run) => Calls({"close"}) = exp_args_list

\* C3 amended: the close calls made so far are the first units of the list in
\* list order; when main exits after the run phase they are the whole list,
\* unless a close call raised, and then they stop at that unit.
C3_ClosedUpToFailure ==
    /\ IsPrefix(Calls({"close"}), exp_args_list)
    /\ (pc = "done" /\ entered_run) =>
          IF exc = "CloseError"
          THEN Calls({"close"}) = SubSeq(exp_args_list, 1, idx)
          ELSE Calls({"close"}) = exp_args_list

C3_Witness ==
    /\ pc = "done"
    /\ entered_run
    /\ exc = "RunError"
    /\ Len(exp_args_list) >= 2
    /\ run_state[exp_args_list[2]] = "raised"
    /\ Calls({"close"}) = exp_args_list

\* C4: an exception raised during preparation or execution leaves main only
\* after close(registry) has been called on the units' agents.
C4_TeardownBeforePropagation ==
    (pc = "done" /\ exc \in {"PrepareError", "RunError"}) =>
        Calls({"close"}) = exp_args_list

\* C5: no run is submitted before every unit of the list has had its agent
\* prepare and then its own prepare, unit after unit in list order.
C5_PreparedBeforeRun ==
    LET prep == SelectSeq(trace, LAMBDA e : e.op \in {"agent_prepare", "prepare"})
    IN /\ IsPrefix(prep, FullPreparation(exp_args_list))
       /\ Calls({"run"}) # <<>> =>
             /\ prep = FullPreparation(exp_args_list)
             /\ \A k \in 1..Len(trace) :
                   trace[k].op \in {"agent_prepare", "prepare"} => k < FirstIndex("run")

C5_Witness ==
    /\ Len(exp_args_list) >= 2
    /\ shuffle_jobs
    /\ exp_args_list[1] > exp_args_list[2]
    /\ Len(Calls({"run"})) >= 2

\* C6: in incomplete_only mode the scanner yields exactly the units whose
\* summary is missing, none of the others, and does not fail.
C6_IncompleteOnlyYieldsMissing ==
    (pc = "scan" /\ relaunch_mode = "incomplete_only") =>
        /\ scan_state # "raised"
        /\ YieldsExactly(Missing(scan_pos))

C6_Witness ==
    /\ pc = "scan"
    /\ relaunch_mode = "incomplete_only"
    /\ scan_state = "exhausted"
    /\ Missing(scan_pos) # {}
    /\ Errored(scan_pos) # {}
    /\ Len(scan_out) < Len(results)

\* C7 as stated: in all_errors mode the scanner yields exactly as many units
\* as there are records with a non-null err_msg.
C7_YieldsExactlyErrored ==
    (pc = "scan" /\ relaunch_mode = "all_errors" /\ scan_state = "exhausted") =>
        Len(scan_out) = Cardinality(Errored(Len(results)))

\* C7 amended: in all_errors mode the scanner yields exactly the units with a
\* non-null err_msg together with the units whose summary is missing.
C7_YieldsErroredAndMissing ==
    (pc = "scan" /\ relaunch_mode = "all_errors") =>
        /\ scan_state # "raised"
        /\ YieldsExactly(Errored(scan_pos) \cup Missing(scan_pos))

C7_Witness ==
    /\ pc = "scan"
    /\ relaunch_mode = "all_errors"
    /\ scan_state = "exhausted"
    /\ Missing(scan_pos) # {}
    /\ Errored(scan_pos) # {}
    /\ Len(scan_out) < Len(results)

\* C8 as stated: in server_errors mode every yielded unit has a summary whose
\* error message one of the two classifiers accepts.
C8_OnlyClassifiedYielded ==
    (pc = "scan" /\ relaunch_mode = "server_errors") =>
        UnitsOf(scan_out) \subseteq ServerErrored(scan_pos)

\* C8 amended: in server_errors mode the scanner yields exactly the units
\* whose summary is missing and the units whose error message the critical
\* or the minor classifier accepts; no other unit is yielded.
C8_YieldsClassifiedAndMissing ==
    (pc = "scan" /\ relaunch_mode = "server_errors") =>
        /\ scan_state # "raised"
        /\ YieldsExactly(ServerErrored(scan_pos) \cup Missing(scan_pos))

C8_Witness ==
    /\ pc = "scan"
    /\ relaunch_mode = "server_errors"
    /\ scan_state = "exhausted"
    /\ \E k \in 1..Len(results) : results[k].err_msg = "minor" /\ k \in UnitsOf(scan_out)
    /\ \E k \in 1..Len(results) : results[k].err_msg = "other" /\ k \notin UnitsOf(scan_out)
    /\ Missing(scan_pos) # {}

\* C9: for a mode other than the three known ones the scan fails with a
\* configuration error on every result set, before yielding any unit.
C9_UnknownModeFailsAtOnce ==
    (pc = "scan" /\ relaunch_mode \notin KnownModes) =>
        /\ scan_state # "exhausted"
        /\ scan_out = <<>>

\* C10: in relaunch mode, when exp_config names a directory that exists under
\* the output root, validation gets to the scan and the output directory is
\* <exp_root>/<exp_config>; the missing-directory error is raised exactly when
\* that directory does not exist.
C10_RelaunchUsesNamedGroup ==
    (relaunch_mode # None /\ validated # None) =>
        IF exp_config \in groups
        THEN /\ exc \notin {"ValueError:unpack", "ValueError:no_such_group"}
             /\ validated = "ok" => exp_dir = <<exp_config>>
        ELSE exc = "ValueError:no_such_group"

\* the units the scanner selects / the units validation is meant to hand over
Candidates == ScanAll(results, relaunch_mode).units
ExpectedUnits == IF relaunch_mode # None THEN Candidates ELSE [k \in 1..n_factory |-> k]
InputReads == Len(SelectSeq(trace, LAMBDA e : e.op = "input"))

\* C11 as stated: any two fresh launches of the same experiment group under
\* the same output root obtain distinct directory names.
C11_DirectoriesDistinct ==
    \A i, j \in 1..Len(launches) : i < j => launches[i].dir # launches[j].dir

\* C11 amended: two fresh launches of the same experiment group obtain the
\* same directory name exactly when their start times format to the same
\* second; launches whose formatted timestamps differ get distinct names.
C11_DistinctUnlessSameSecond ==
    \A i, j \in 1..Len(launches) :
        (launches[i].dir = launches[j].dir)
            <=> (FormatStamp(launches[i].at) = FormatStamp(launches[j].at))

C11_Witness ==
    /\ Len(launches) = 2
    /\ launches[1].at < launches[2].at
    /\ launches[1].dir # launches[2].dir
    /\ exp_config = <<"a", ".", "a">>

\* C12: in relaunch mode the units validation returns are the units the
\* scanner selected, each with the table's endpoint for its model name, and
\* every candidate's endpoint is overwritten before the confirmation step.
C12_EndpointsRefreshed ==
    (relaunch_mode # None /\ validated \in {"ok", "none"} /\ Candidates # <<>>) =>
        /\ validated = "ok" => exp_args_list = Candidates
        /\ \A k \in 1..Len(Candidates) :
              model_url[Candidates[k]] = ModelUrlTable[model_name[Candidates[k]]]
        /\ Calls({"set_model_url"}) = Candidates
        /\ \A k \in 1..Len(trace) :
              trace[k].op = "set_model_url" =>
                  \A j \in 1..k : trace[j].op # "input"

C12_Witness ==
    /\ relaunch_mode = "all_errors"
    /\ validated = "ok"
    /\ ~auto_accept
    /\ Len(results) = 2
    /\ exp_args_list = <<2>>
    /\ model_name[2] = "m2"
    /\ model_url = <<StaleUrl, "url2">>

\* validation got as far as the confirmation step
ReachedConfirm ==
    /\ validated \in {"ok", "none"}
    /\ ~(relaunch_mode # None /\ Candidates = <<>>)

\* C14: at the confirmation step, auto_accept reads no input and proceeds
\* with the unit list; otherwise exactly one answer is read and validation
\* proceeds exactly when it lower-cases to "y", returning nothing otherwise.
C14_ConfirmationStep ==
    validated # None =>
        /\ ~ReachedConfirm => InputReads = 0
        /\ ReachedConfirm =>
              IF auto_accept
              THEN /\ InputReads = 0
                   /\ validated = "ok"
                   /\ exp_args_list = ExpectedUnits
              ELSE /\ InputReads = 1
                   /\ validated = "ok" <=> Lower(answer) = <<"y">>
                   /\ validated = "ok" => exp_args_list = ExpectedUnits
                   /\ validated = "none" => exp_args_list = <<>>

C14_Witness ==
    /\ ~auto_accept
    /\ answer = <<"Y">>
    /\ validated = "ok"
    /\ InputReads = 1
    /\ Len(exp_args_list) >= 1

\* some unit of the list carries the benchmark marker in its task name
HasMarker == webarena \cap UnitsOf(exp_args_list) # {}
Checks == Len(SelectSeq(trace, LAMBDA e : e.op = "check_webarena_servers"))

\* C13: when a unit's task name carries the marker the pre-flight check runs
\* once, before any prepare; when it fails the failure leaves main and no
\* unit is prepared, run or closed; without a marker it never runs.
C13_PreflightBeforePrepare ==
    /\ ~HasMarker => Checks = 0
    /\ (HasMarker /\ pc \notin {"start", "shuffle", "check"}) =>
          /\ Checks = 1
          /\ \A k \in 1..Len(trace) :
                trace[k].op \in UnitCalls => FirstIndex("check_webarena_servers") < k
    /\ exc = "CheckError" => pc = "done" /\ Calls(UnitCalls) = <<>>

C13_Witness ==
    /\ exc = "CheckError"
    /\ pc = "done"
    /\ Len(exp_args_list) = 2
    /\ exp_args_list[2] \in webarena
    /\ exp_args_list[1] \notin webarena

\* C15: when a prepare call fails, no later prepare call is made, no run is
\* ever submitted, and the failure leaves main.
C15_PrepareFailureStops ==
    exc = "PrepareError" =>
        /\ pc = "done"
        /\ Calls({"run"}) = <<>>
        /\ SelectSeq(trace, LAMBDA e : e.op \in {"agent_prepare", "prepare"})
              = SubSeq(FullPreparation(exp_args_list), 1,
                       2 * (idx - 1) + (IF stage = "agent" THEN 1 ELSE 2))

C15_Witness ==
    /\ exc = "PrepareError"
    /\ Len(exp_args_list) >= 2
    /\ idx = 1
    /\ stage = "agent"
    /\ Calls({"agent_prepare"}) = <<exp_args_list[1]>>

\* the phase a collaborator call belongs to
PhaseOf(op) ==
    IF op \in {"input", "set_model_url"} THEN 0
    ELSE IF op = "check_webarena_servers" THEN 1
    ELSE IF op \in {"agent_prepare", "prepare"} THEN 2
    ELSE IF op = "run" THEN 3
    ELSE 4
PhasesInOrder ==
    \A i, j \in 1..Len(trace) : i < j => PhaseOf(trace[i].op) <= PhaseOf(trace[j].op)
Submitted == UnitsOf(Calls({"run"}))

\* C16 as stated: the calls are made phase after phase with no loop-back,
\* and the first close comes after every submitted run returned or raised.
C16_ClosesAfterRunsReturnOrRaise ==
    /\ PhasesInOrder
    /\ Calls({"close"}) # <<>> =>
          \A u \in Submitted : run_state[u] \in {"returned", "raised"}

\* C16 amended: the calls are made phase after phase with no loop-back, and
\* when the first close is made no submitted run is still executing: each
\* has returned, raised, or was aborted when Parallel gave up.
C16_ClosesAfterRunsEnd ==
    /\ PhasesInOrder
    /\ Calls({"close"}) # <<>> =>
          /\ pc \in {"teardown", "done"}
          /\ \A u \in Submitted : run_state[u] \in {"returned", "raised", "aborted"}

C16_Witness ==
    /\ Calls({"close"}) # <<>>
    /\ Len(exp_args_list) = 2
    /\ Submitted = UnitsOf(exp_args_list)
    /\ \E u \in Submitted : run_state[u] = "raised"
    /\ \E u \in Submitted : run_state[u] = "aborted"

\* C17: the yielded units are records of the iterator taken once each, in
\* traversal order, and every examined record without a summary is among
\* them whatever the mode.
C17_YieldsSubsequence ==
    pc = "scan" =>
        /\ scan_pos <= Len(results)
        /\ \A k \in 1..Len(scan_out) : scan_out[k] \in 1..scan_pos
        /\ \A i, j \in 1..Len(scan_out) : i < j => scan_out[i] < scan_out[j]
        /\ Missing(scan_pos) \subseteq UnitsOf(scan_out)
        /\ scan_state = "exhausted" => scan_pos = Len(results)

C17_Witness ==
    /\ pc = "scan"
    /\ relaunch_mode = "server_error"
    /\ scan_state = "raised"
    /\ scan_out = <<1, 2>>
    /\ Len(results) = 3

\* the list holds each unit of the other list once
IsPermutation(s, t) ==
    /\ Len(s) = Len(t)
    /\ UnitsOf(s) = UnitsOf(t)
    /\ \A i, j \in 1..Len(s) : i # j => s[i] # s[j]

\* C18: the list main works on is a permutation of the validated units, and
\* preparation, submission and teardown all go through it in its order; a
\* launch that ends normally has prepared, run and closed every unit.
C18_ShufflePermutes ==
    (validated = "ok" /\ pc \notin {"start", "shuffle"}) =>
        /\ IsPermutation(exp_args_list, ExpectedUnits)
        /\ ~shuffle_jobs => exp_args_list = ExpectedUnits
        /\ IsPrefix(Calls({"agent_prepare"}), exp_args_list)
        /\ IsPrefix(Calls({"prepare"}), exp_args_list)
        /\ IsPrefix(Calls({"run"}), exp_args_list)
        /\ IsPrefix(Calls({"close"}), exp_args_list)
        /\ (pc = "done" /\ exc = None) =>
              /\ Calls({"agent_prepare"}) = exp_args_list
              /\ Calls({"prepare"}) = exp_args_list
              /\ Calls({"run"}) = exp_args_list
              /\ Calls({"close"}) = exp_args_list

C18_Witness ==
    /\ shuffle_jobs
    /\ exp_args_list = <<2, 1>>
    /\ pc = "done"
    /\ exc = None
    /\ Calls({"prepare"}) = <<2, 1>>
    /\ Calls({"close"}) = <<2, 1>>

\* C19: a close call that raises ends the teardown: no later unit is
\* closed, and the exception leaving main is the close failure, also when
\* the run phase had raised.
C19_TeardownStopsAtFailingClose ==
    /\ exc = "CloseError" =>
          /\ pc = "done"
          /\ idx <= Len(exp_args_list)
          /\ Calls({"close"}) = SubSeq(exp_args_list, 1, idx)
    /\ (pc = "done" /\ entered_run /\ Len(Calls({"close"})) < Len(exp_args_list)) =>
          exc = "CloseError"

C19_Witness ==
    /\ exc = "CloseError"
    /\ pc = "done"
    /\ Len(exp_args_list) = 2
    /\ idx = 1
    /\ \E u \in DOMAIN run_state : run_state[u] = "raised"

====
